---- MODULE Spec2Model ----
(***************************************************************************)
(* LAVA dispatcher: the Target device abstraction (Target.runner scope,    *)
(* SerialIO console transcript sink) and the boot-control Actions          *)
(* (boot_control.py) run by the job pipeline.                              *)
(*                                                                         *)
(* Four specifications share the variables below:                          *)
(*   SpecRunner  the with-scope of Target.runner()                         *)
(*   SpecBoot    a job pipeline of boot Actions                            *)
(*   SpecSio     the SerialIO sink                                         *)
(*   SpecTarget  the capabilities of a Target variant                      *)
(* Each action leaves the variables of the other parts untouched.          *)
(***************************************************************************)
EXTENDS Integers, Sequences, FiniteSets, TLC

VARIABLES
    \* ---- Target.runner() ----
    rpc,            \* position inside the runner() scope
    proc,           \* local 'proc' of runner(): session handle or None
    runner,         \* local 'runner' of runner(): CommandRunner or None
    pending,        \* exception in flight in / leaving the scope (NoError if none)
    bodyExc,        \* what the with-body raised (NoError if it has not raised)
    wrapFailed,     \* CommandRunner(...) construction raised
    syncExc,        \* what runner.run('sync') raised in the finally block
    bodyCmds,       \* number of commands the with-body ran through the runner
    trace,          \* device-facing calls made so far, in order
    \* ---- SerialIO ----
    serialio,       \* the cStringIO buffer: [buf, pos, closed]
    logfile,        \* the log stream: [data, flushed, closed]
    written,        \* texts passed to the write calls, in call order
    sioPending,     \* the write call in progress: [active, text]
    lastGet,        \* value returned by the latest getvalue()
    sioOp,          \* the latest SerialIO operation
    \* ---- boot Actions and the job pipeline ----
    pipeline,       \* the job's Action names, in declared order
    idx,            \* index of the current Action
    apc,            \* position of the executor / inside the current run
    params,         \* parameters bound to the current Action
    loc,            \* locals of the current run: adb_check, status, exc (in flight)
    bootExc,        \* what the underlying boot call raised in the current run
    boot_options,   \* Target.boot_options
    boot_cmds,      \* config.boot_cmds (interactive boot commands)
    android_wait_for_home_screen,   \* config.android_wait_for_home_screen
    test_data,      \* context.test_data: (name, outcome) records, append-only
    log,            \* records written through logging
    runCount,       \* how many times the body of each Action's run was entered
    jobError,       \* error reported for the job
    jobTestData,    \* TestData reported with the failed job
    entry,          \* Target / config / TestData values when the current run was entered
    \* ---- Target capabilities ----
    impl,           \* the capabilities the Target variant implements
    deployment_data,\* Target.deployment_data
    tCall,          \* the latest capability invoked on the Target
    tExc,           \* what that invocation raised (NoError if it returned)
    tBefore,        \* deployment_data and boot_options when it was invoked
    tCalls          \* number of capability invocations

runnerVars == <<rpc, proc, runner, pending, bodyExc, wrapFailed, syncExc, bodyCmds, trace>>
sioVars    == <<serialio, logfile, written, sioPending, lastGet, sioOp>>
bootVars   == <<pipeline, idx, apc, params, loc, bootExc, boot_options, boot_cmds,
                android_wait_for_home_screen, test_data, log, runCount,
                jobError, jobTestData, entry>>
targetVars == <<impl, deployment_data, tCall, tExc, tBefore, tCalls>>
vars       == <<runnerVars, sioVars, bootVars, targetVars>>

----------------------------------------------------------------------------
(* Bounds *)
NumSessions == 2
MaxBodyCmds == 2
MaxTextLen  == 2       \* longest text passed to one SerialIO.write
MaxWrites   == 3       \* SerialIO.write calls in one run
MaxActions  == 3       \* Actions in one job
MaxParams   == 2       \* parameters bound to one Action
MaxCalls    == 2       \* capability invocations on one Target

(* Values *)
None     == 0          \* Python None (falsy); session handles are 1..NumSessions
Ev(e, c, s) == [ev |-> e, cmd |-> c, s |-> s]
NoError  == [kind |-> "NoError", msg |-> ""]
Err(k, m) == [kind |-> k, msg |-> m]

Sessions == 1..NumSessions

\* Exceptions the code inside the with-body may raise.
BodyErrors == {Err("CriticalError", "body failed"), Err("Exception", "oops"),
               Err("TimeoutError", "body timeout")}
\* Base Target.power_on raises NotImplementedError('power_on'); a variant may
\* fail with a boot/connectivity error.
PowerOnErrors == {Err("NotImplementedError", "power_on"),
                  Err("CriticalError", "power_on failed")}
PowerOffErrors == {Err("NotImplementedError", "power_off")}
\* CommandRunner.run fails with a timeout when the prompt does not come back.
RunErrors == {Err("TimeoutError", "sync timeout")}
WrapErrors == {Err("ImportError", "CommandRunner")}
\* runner is None in the finally block: None.run raises AttributeError.
AttributeError == Err("AttributeError", "'NoneType' object has no attribute 'run'")

----------------------------------------------------------------------------
(* Target.runner(), target.py:89-104, as a generator-based context manager *)

RunnerInit ==
    /\ rpc = "power_on"
    /\ proc = None
    /\ runner = None
    /\ pending = NoError
    /\ bodyExc = NoError
    /\ wrapFailed = FALSE
    /\ syncExc = NoError
    /\ bodyCmds = 0
    /\ trace = <<>>

\* proc = self.power_on()   (line 96), returning a session
PowerOnReturns ==
    /\ rpc = "power_on"
    /\ \E s \in Sessions :
          /\ proc' = s
          /\ trace' = Append(trace, Ev("power_on", "", s))
    /\ rpc' = "wrap"
    /\ UNCHANGED <<runner, pending, bodyExc, wrapFailed, syncExc, bodyCmds>>
    /\ UNCHANGED <<sioVars, bootVars, targetVars>>

\* proc = self.power_on()   (line 96), raising: control goes to finally
PowerOnRaises ==
    /\ rpc = "power_on"
    /\ \E e \in PowerOnErrors :
          /\ pending' = e
          /\ trace' = Append(trace, Ev("power_on", e.kind, None))
    /\ rpc' = "finally"
    /\ UNCHANGED <<proc, runner, bodyExc, wrapFailed, syncExc, bodyCmds>>
    /\ UNCHANGED <<sioVars, bootVars, targetVars>>

\* import CommandRunner; runner = CommandRunner(proc, tester_str); yield runner
\* (lines 97-99)
WrapReturns ==
    /\ rpc = "wrap"
    /\ runner' = proc          \* the CommandRunner wrapping session proc
    /\ trace' = Append(trace, Ev("yield", "", proc))
    /\ rpc' = "body"
    /\ UNCHANGED <<proc, pending, bodyExc, wrapFailed, syncExc, bodyCmds>>
    /\ UNCHANGED <<sioVars, bootVars, targetVars>>

\* lines 97-98 raising before the runner is yielded
WrapRaises ==
    /\ rpc = "wrap"
    /\ \E e \in WrapErrors : pending' = e
    /\ wrapFailed' = TRUE
    /\ rpc' = "finally"
    /\ UNCHANGED <<proc, runner, bodyExc, syncExc, bodyCmds, trace>>
    /\ UNCHANGED <<sioVars, bootVars, targetVars>>

\* the caller's code inside the scope runs a command through the runner
BodyRun ==
    /\ rpc = "body"
    /\ bodyCmds < MaxBodyCmds
    /\ bodyCmds' = bodyCmds + 1
    /\ trace' = Append(trace, Ev("run", "ls", runner))
    /\ UNCHANGED <<rpc, proc, runner, pending, bodyExc, wrapFailed, syncExc>>
    /\ UNCHANGED <<sioVars, bootVars, targetVars>>

\* the with-body finishes normally: __exit__ resumes the generator
BodyReturns ==
    /\ rpc = "body"
    /\ trace' = Append(trace, Ev("body_exit", "NoError", proc))
    /\ rpc' = "finally"
    /\ UNCHANGED <<proc, runner, pending, bodyExc, wrapFailed, syncExc, bodyCmds>>
    /\ UNCHANGED <<sioVars, bootVars, targetVars>>

\* the with-body raises: __exit__ throws the exception in at the yield
BodyRaises ==
    /\ rpc = "body"
    /\ \E e \in BodyErrors :
          /\ bodyExc' = e
          /\ pending' = e
          /\ trace' = Append(trace, Ev("body_exit", e.kind, proc))
    /\ rpc' = "finally"
    /\ UNCHANGED <<proc, runner, wrapFailed, syncExc, bodyCmds>>
    /\ UNCHANGED <<sioVars, bootVars, targetVars>>

\* finally: if proc:  (line 101) is false, the pending exception leaves
FinallySkip_noGuard ==
    /\ rpc = "finally"
    /\ proc = None
    /\ pending' = AttributeError
    /\ trace' = Append(trace, Ev("log", "attempting a filesystem sync before power_off", None))
    /\ rpc' = "done"
    /\ UNCHANGED <<proc, runner, bodyExc, wrapFailed, syncExc, bodyCmds>>
    /\ UNCHANGED <<sioVars, bootVars, targetVars>>
FinallySkip ==
    /\ rpc = "finally"
    /\ proc = None
    /\ rpc' = "done"
    /\ UNCHANGED <<proc, runner, pending, bodyExc, wrapFailed, syncExc, bodyCmds, trace>>
    /\ UNCHANGED <<sioVars, bootVars, targetVars>>

\* lines 102-103 with runner = None: runner.run raises AttributeError, which
\* replaces the exception in flight; line 104 is not reached
SyncNoRunner ==
    /\ rpc = "finally"
    /\ proc # None
    /\ runner = None
    /\ pending' = AttributeError
    /\ trace' = Append(trace, Ev("log", "attempting a filesystem sync before power_off", None))
    /\ rpc' = "done"
    /\ UNCHANGED <<proc, runner, bodyExc, wrapFailed, syncExc, bodyCmds>>
    /\ UNCHANGED <<sioVars, bootVars, targetVars>>

\* lines 102-103, runner.run('sync', timeout=5) returns
SyncReturns ==
    /\ rpc = "finally"
    /\ proc # None
    /\ runner # None
    /\ trace' = trace \o << Ev("log", "attempting a filesystem sync before power_off", None),
                           Ev("run", "sync", runner) >>
    /\ rpc' = "power_off"
    /\ UNCHANGED <<proc, runner, pending, bodyExc, wrapFailed, syncExc, bodyCmds>>
    /\ UNCHANGED <<sioVars, bootVars, targetVars>>

\* lines 102-103, runner.run('sync', timeout=5) raises: the exception leaves
\* the finally block, line 104 is not reached
SyncRaises ==
    /\ rpc = "finally"
    /\ proc # None
    /\ runner # None
    /\ \E e \in RunErrors : pending' = e /\ syncExc' = e
    /\ trace' = trace \o << Ev("log", "attempting a filesystem sync before power_off", None),
                           Ev("run", "sync", runner) >>
    /\ rpc' = "done"
    /\ UNCHANGED <<proc, runner, bodyExc, wrapFailed, bodyCmds>>
    /\ UNCHANGED <<sioVars, bootVars, targetVars>>

\* self.power_off(proc)  (line 104) returns
PowerOffReturns ==
    /\ rpc = "power_off"
    /\ trace' = Append(trace, Ev("power_off", "", proc))
    /\ rpc' = "done"
    /\ UNCHANGED <<proc, runner, pending, bodyExc, wrapFailed, syncExc, bodyCmds>>
    /\ UNCHANGED <<sioVars, bootVars, targetVars>>

\* self.power_off(proc)  (line 104) raises
PowerOffRaises ==
    /\ rpc = "power_off"
    /\ \E e \in PowerOffErrors : pending' = e
    /\ trace' = Append(trace, Ev("power_off", "", proc))
    /\ rpc' = "done"
    /\ UNCHANGED <<proc, runner, bodyExc, wrapFailed, syncExc, bodyCmds>>
    /\ UNCHANGED <<sioVars, bootVars, targetVars>>

RunnerNext ==
    \/ PowerOnReturns \/ PowerOnRaises
    \/ WrapReturns \/ WrapRaises
    \/ BodyRun \/ BodyReturns \/ BodyRaises
    \/ FinallySkip \/ SyncNoRunner \/ SyncReturns \/ SyncRaises
    \/ PowerOffReturns \/ PowerOffRaises

----------------------------------------------------------------------------
(* SerialIO, target.py:110-127 *)

Chars == {"a", "b"}
RECURSIVE SeqsUpTo(_)
SeqsUpTo(n) == IF n = 0 THEN {<<>>}
               ELSE LET S == SeqsUpTo(n - 1)
                    IN  S \cup {Append(s, c) : s \in {x \in S : Len(x) = n - 1}, c \in Chars}
Texts == SeqsUpTo(MaxTextLen)

MaxOf(a, b) == IF a >= b THEN a ELSE b

\* cStringIO output object: write copies the text in at the current position
\* and advances the position; the string size is the furthest position reached
cwrite_at_start(io, text) ==
    [io EXCEPT !.buf = [i \in 1..MaxOf(Len(io.buf), Len(text)) |->
                           IF i <= Len(text) THEN text[i] ELSE io.buf[i]]]
cwrite(io, text) ==
    [io EXCEPT !.buf = [i \in 1..MaxOf(Len(io.buf), io.pos + Len(text)) |->
                           IF i > io.pos /\ i <= io.pos + Len(text)
                           THEN text[i - io.pos] ELSE io.buf[i]],
               !.pos = io.pos + Len(text)]
\* cStringIO getvalue(): the whole buffer, whatever the position
cgetvalue(io) == io.buf

\* file.write(text) on the log stream: appends
fwrite(lg, text) == [lg EXCEPT !.data = @ \o text]

\* SerialIO.write, lines 116-117: the buffer and the log stream after the
\* first and after the second statement
write_effect_logFirst(io, lg, text, step) ==
    IF step = 1 THEN [io |-> io, lg |-> fwrite(lg, text)]
                ELSE [io |-> cwrite(io, text), lg |-> lg]
write_effect(io, lg, text, step) ==
    IF step = 1 THEN [io |-> cwrite(io, text), lg |-> lg]
                ELSE [io |-> io, lg |-> fwrite(lg, text)]

NoWrite == [active |-> FALSE, text |-> <<>>]

RECURSIVE Concat(_)
Concat(ss) == IF ss = <<>> THEN <<>> ELSE Head(ss) \o Concat(Tail(ss))

IsPrefix(s, t) == Len(s) <= Len(t) /\ SubSeq(t, 1, Len(s)) = s

SioInit ==
    /\ serialio = [buf |-> <<>>, pos |-> 0, closed |-> FALSE]
    /\ logfile = [data |-> <<>>, flushed |-> 0, closed |-> FALSE]
    /\ written = <<>>
    /\ sioPending = NoWrite
    /\ lastGet = <<>>
    /\ sioOp = "init"

\* SerialIO.write(text), lines 115-116: the call is entered and its first
\* statement, self.serialio.write(text), runs
SioWrite ==
    /\ ~sioPending.active
    /\ ~serialio.closed
    /\ ~logfile.closed
    /\ Len(written) < MaxWrites
    /\ \E text \in Texts :
          /\ serialio' = write_effect(serialio, logfile, text, 1).io
          /\ logfile' = write_effect(serialio, logfile, text, 1).lg
          /\ written' = Append(written, text)
          /\ sioPending' = [active |-> TRUE, text |-> text]
    /\ sioOp' = "write"
    /\ UNCHANGED lastGet
    /\ UNCHANGED <<runnerVars, bootVars, targetVars>>

\* SerialIO.write(text), line 117: self.logfile.write(text) runs and the call
\* returns
SioWriteLog ==
    /\ sioPending.active
    /\ serialio' = write_effect(serialio, logfile, sioPending.text, 2).io
    /\ logfile' = write_effect(serialio, logfile, sioPending.text, 2).lg
    /\ sioPending' = NoWrite
    /\ sioOp' = "write_done"
    /\ UNCHANGED <<written, lastGet>>
    /\ UNCHANGED <<runnerVars, bootVars, targetVars>>

\* SerialIO.close(), lines 119-121
SioClose ==
    /\ ~sioPending.active
    /\ serialio' = [serialio EXCEPT !.closed = TRUE]
    /\ logfile' = [logfile EXCEPT !.closed = TRUE, !.flushed = Len(logfile.data)]
    /\ sioOp' = "close"
    /\ UNCHANGED <<written, sioPending, lastGet>>
    /\ UNCHANGED <<runnerVars, bootVars, targetVars>>

\* SerialIO.flush(), lines 123-124
SioFlush ==
    /\ ~sioPending.active
    /\ ~logfile.closed
    /\ logfile' = [logfile EXCEPT !.flushed = Len(logfile.data)]
    /\ sioOp' = "flush"
    /\ UNCHANGED <<serialio, written, sioPending, lastGet>>
    /\ UNCHANGED <<runnerVars, bootVars, targetVars>>

\* SerialIO.getvalue(), lines 126-127
SioGetvalue ==
    /\ ~sioPending.active
    /\ ~serialio.closed
    /\ lastGet' = cgetvalue(serialio)
    /\ sioOp' = "getvalue"
    /\ UNCHANGED <<serialio, logfile, written, sioPending>>
    /\ UNCHANGED <<runnerVars, bootVars, targetVars>>

\* write, flush or getvalue on the closed sink: the underlying stream raises
\* ValueError (I/O operation on closed file) and nothing is stored
SioClosedError ==
    /\ serialio.closed
    /\ sioOp' = "ValueError"
    /\ UNCHANGED <<serialio, logfile, written, sioPending, lastGet>>
    /\ UNCHANGED <<runnerVars, bootVars, targetVars>>

SioNext == SioWrite \/ SioWriteLog \/ SioClose \/ SioFlush \/ SioGetvalue \/ SioClosedError

----------------------------------------------------------------------------
(* boot_control.py: parameter schemas *)

ActionNames == {"boot_linaro_android_image", "boot_linaro_image", "boot_master_image"}

\* _boot_schema as written, lines 31-38
boot_schema == [properties |-> {"options"}, additionalProperties |-> FALSE]

\* lines 45-51: parameters_schema = _boot_schema binds the SAME dict, and
\* the two assignments add 'adb_check' and 'wait_for_home_screen' to it
schema_after_android ==
    [boot_schema EXCEPT !.properties = @ \cup {"adb_check", "wait_for_home_screen"}]

\* lines 75-78: parameters_schema = _boot_schema binds the same dict again,
\* and the assignment adds 'interactive_boot_cmds' to it
schema_after_image ==
    [schema_after_android EXCEPT !.properties = @ \cup {"interactive_boot_cmds"}]

\* the 'default' each schema property declares (lines 46-51, 76-78)
schema_default(f) ==
    CASE f = "adb_check"             -> FALSE
      [] f = "wait_for_home_screen"  -> FALSE
      [] f = "interactive_boot_cmds" -> FALSE

\* null_or_empty_schema (imported from lava_dispatcher.actions): no field
null_or_empty_schema == [properties |-> {}, additionalProperties |-> FALSE]

\* The schema each Action class holds once the module is imported: both boot
\* classes reference the one dict, in its final state.
parameters_schema(name) ==
    IF name = "boot_master_image" THEN null_or_empty_schema ELSE schema_after_image

\* The fields each Action declares itself (in its class body)
OwnDeclared(name) ==
    CASE name = "boot_linaro_android_image" -> {"options", "adb_check", "wait_for_home_screen"}
      [] name = "boot_linaro_image"         -> {"options", "interactive_boot_cmds"}
      [] OTHER                              -> {}

\* The keyword arguments run accepts (lines 53, 80, 103)
RunSignature(name) ==
    CASE name = "boot_linaro_android_image" -> {"options", "adb_check", "wait_for_home_screen"}
      [] name = "boot_linaro_image"         -> {"options", "interactive_boot_cmds"}
      [] OTHER                              -> {}

\* Schema validation of the bound parameters: an undeclared field is rejected
\* when additionalProperties is false
Validate(schema, p) ==
    schema.additionalProperties = FALSE => DOMAIN p \subseteq schema.properties

Fields == {"options", "adb_check", "wait_for_home_screen", "interactive_boot_cmds", "bogus"}
OptionLists == {<<>>, <<"-s">>, <<"console=ttyS0">>}
NoParams == [f \in {} |-> TRUE]
\* the parameter maps a job may bind: 'options' a list of strings, the other
\* fields booleans, at most MaxParams fields
OptionParts == {NoParams} \cup {[f \in {"options"} |-> o] : o \in OptionLists}
FlagParts == UNION {{p \in [D -> BOOLEAN] : "bogus" \in D => p["bogus"]} :
                    D \in SUBSET (Fields \ {"options"})}
ParamSets == {p \in {o @@ b : o \in OptionParts, b \in FlagParts} :
                 Cardinality(DOMAIN p) <= MaxParams}

Arg(p, f, default) == IF f \in DOMAIN p THEN p[f] ELSE default

\* Exceptions the underlying boot call may raise.  KeyboardInterrupt is a
\* BaseException that 'except Exception' does not catch.
BootErrors == {Err("ADBConnectError", "adb connect failed"),
               Err("Exception", "kernel panic"),
               Err("TimeoutError", "boot timeout"),
               Err("KeyboardInterrupt", "")}
IsADBConnectError(e) == e.kind = "ADBConnectError"
IsException(e) == e.kind # "KeyboardInterrupt"

CriticalError(m) == Err("CriticalError", m)
NoLocals == [adb_check |-> FALSE, status |-> "", exc |-> NoError]

----------------------------------------------------------------------------
(* The job pipeline and the boot Actions' run methods *)

RECURSIVE SeqsOver(_, _)
SeqsOver(S, n) == IF n = 0 THEN {<<>>}
                  ELSE LET R == SeqsOver(S, n - 1)
                       IN  R \cup {Append(s, x) : s \in {y \in R : Len(y) = n - 1}, x \in S}

\* Target.__init__ (target.py:47-55) sets boot_options = []; the config
\* values are whatever the device configuration holds
BootIdle ==
    /\ pipeline = <<>>
    /\ idx = 1
    /\ apc = "next"
    /\ params = NoParams
    /\ loc = NoLocals
    /\ bootExc = NoError
    /\ boot_options = <<>>
    /\ boot_cmds = <<"boot_cmds from device config">>
    /\ android_wait_for_home_screen = TRUE
    /\ test_data = <<>>
    /\ log = <<>>
    /\ runCount = [i \in 1..MaxActions |-> 0]
    /\ jobError = NoError
    /\ jobTestData = <<>>
    /\ entry = [boot_options |-> <<>>, boot_cmds |-> <<"boot_cmds from device config">>,
                android_wait_for_home_screen |-> TRUE, test_data |-> <<>>]

BootInit ==
    /\ pipeline \in SeqsOver(ActionNames, MaxActions) \ {<<>>}
    /\ idx = 1
    /\ apc = "next"
    /\ params = NoParams
    /\ loc = NoLocals
    /\ bootExc = NoError
    /\ boot_options = <<>>
    /\ boot_cmds = <<"boot_cmds from device config">>
    /\ android_wait_for_home_screen \in BOOLEAN
    /\ test_data = <<>>
    /\ log = <<>>
    /\ runCount = [i \in 1..MaxActions |-> 0]
    /\ jobError = NoError
    /\ jobTestData = <<>>
    /\ entry = [boot_options |-> boot_options, boot_cmds |-> boot_cmds,
                android_wait_for_home_screen |-> android_wait_for_home_screen,
                test_data |-> test_data]

cfgVars == <<boot_options, boot_cmds, android_wait_for_home_screen>>

\* Executor: bind the next Action's parameters and validate them against the
\* Action's schema; a violation fails the job before run is invoked
ExecBind ==
    /\ apc = "next"
    /\ idx <= Len(pipeline)
    /\ \E p \in ParamSets :
          /\ params' = p
          /\ IF Validate(parameters_schema(pipeline[idx]), p)
             THEN /\ apc' = "validated"
                  /\ UNCHANGED <<jobError, jobTestData>>
             ELSE /\ apc' = "job_failed"
                  /\ jobError' = Err("SchemaError", pipeline[idx])
                  /\ jobTestData' = test_data
    /\ loc' = NoLocals
    /\ bootExc' = NoError
    /\ entry' = [boot_options |-> boot_options, boot_cmds |-> boot_cmds,
                 android_wait_for_home_screen |-> android_wait_for_home_screen,
                 test_data |-> test_data]
    /\ UNCHANGED <<pipeline, idx, cfgVars, test_data, log, runCount>>
    /\ UNCHANGED <<runnerVars, sioVars, targetVars>>

\* Executor: action.run(**params) with a keyword run does not accept: the
\* call raises TypeError and no statement of run executes
InvokeTypeError ==
    /\ apc = "validated"
    /\ ~(DOMAIN params \subseteq RunSignature(pipeline[idx]))
    /\ loc' = [loc EXCEPT !.exc = Err("TypeError", "run() got an unexpected keyword argument")]
    /\ apc' = "exit"
    /\ UNCHANGED <<entry, pipeline, idx, params, bootExc, cfgVars, test_data, log,
                   runCount, jobError, jobTestData>>
    /\ UNCHANGED <<runnerVars, sioVars, targetVars>>

\* cmd_boot_linaro_android_image.run, lines 53-58, up to the boot call
AndroidRunSet_keepsOptions ==
    /\ apc = "validated"
    /\ pipeline[idx] = "boot_linaro_android_image"
    /\ DOMAIN params \subseteq RunSignature(pipeline[idx])
    /\ runCount' = [runCount EXCEPT ![idx] = @ + 1]
    /\ LET adb_check == Arg(params, "adb_check", FALSE)
           wait_for_home_screen == Arg(params, "wait_for_home_screen", TRUE)
       IN  /\ android_wait_for_home_screen' = wait_for_home_screen
           /\ loc' = [loc EXCEPT !.adb_check = adb_check]
    /\ apc' = "boot_call"
    /\ UNCHANGED <<entry, pipeline, idx, params, bootExc, boot_options, boot_cmds,
                   test_data, log, jobError, jobTestData>>
    /\ UNCHANGED <<runnerVars, sioVars, targetVars>>
AndroidRunSet ==
    /\ apc = "validated"
    /\ pipeline[idx] = "boot_linaro_android_image"
    /\ DOMAIN params \subseteq RunSignature(pipeline[idx])
    /\ runCount' = [runCount EXCEPT ![idx] = @ + 1]
    /\ LET options == Arg(params, "options", <<>>)        \* None or [] -> []
           adb_check == Arg(params, "adb_check", FALSE)
           wait_for_home_screen == Arg(params, "wait_for_home_screen", TRUE)
       IN  /\ boot_options' = options
           /\ android_wait_for_home_screen' = wait_for_home_screen
           /\ loc' = [loc EXCEPT !.adb_check = adb_check]
    /\ apc' = "boot_call"
    /\ UNCHANGED <<entry, pipeline, idx, params, bootExc, boot_cmds, test_data, log,
                   jobError, jobTestData>>
    /\ UNCHANGED <<runnerVars, sioVars, targetVars>>

\* lines 59-61: client.boot_linaro_android_image(adb_check=adb_check) returns
AndroidBootReturns ==
    /\ apc = "boot_call"
    /\ pipeline[idx] = "boot_linaro_android_image"
    /\ apc' = "exit"
    /\ UNCHANGED <<entry, pipeline, idx, params, loc, bootExc, cfgVars, test_data, log,
                   runCount, jobError, jobTestData>>
    /\ UNCHANGED <<runnerVars, sioVars, targetVars>>

\* What leaves cmd_boot_linaro_android_image.run when the boot call raises e
\* (lines 62-68)
AndroidRaised_wrapAll(e) ==
    IF IsException(e) THEN CriticalError("Failed to boot test image.") ELSE e
AndroidRaised(e) ==
    IF IsADBConnectError(e) THEN e
    ELSE IF IsException(e) THEN CriticalError("Failed to boot test image.")
    ELSE e

\* What the handlers of lines 62-68 log when the boot call raises e
AndroidLogged(e) ==
    IF IsADBConnectError(e)
    THEN << [fmt |-> "boot_linaro_android_image failed to create the adb connection: %s",
             arg |-> e.msg] >>
    ELSE IF IsException(e)
    THEN << [fmt |-> "boot_linaro_android_image failed: %s", arg |-> e.msg] >>
    ELSE <<>>

\* lines 59-68: the boot call raises
AndroidBootRaises ==
    /\ apc = "boot_call"
    /\ pipeline[idx] = "boot_linaro_android_image"
    /\ \E e \in BootErrors :
          /\ bootExc' = e
          /\ log' = log \o AndroidLogged(e)
          /\ loc' = [loc EXCEPT !.exc = AndroidRaised(e)]
    /\ apc' = "exit"
    /\ UNCHANGED <<entry, pipeline, idx, params, cfgVars, test_data, runCount,
                   jobError, jobTestData>>
    /\ UNCHANGED <<runnerVars, sioVars, targetVars>>

\* cmd_boot_linaro_image.run, lines 80-86, up to the boot call
ImageRunSet_setsBoth ==
    /\ apc = "validated"
    /\ pipeline[idx] = "boot_linaro_image"
    /\ DOMAIN params \subseteq RunSignature(pipeline[idx])
    /\ runCount' = [runCount EXCEPT ![idx] = @ + 1]
    /\ LET options == Arg(params, "options", <<>>)
       IN  boot_cmds' = options /\ boot_options' = options
    /\ loc' = [loc EXCEPT !.status = "pass"]
    /\ apc' = "boot_call"
    /\ UNCHANGED <<entry, pipeline, idx, params, bootExc, android_wait_for_home_screen,
                   test_data, log, jobError, jobTestData>>
    /\ UNCHANGED <<runnerVars, sioVars, targetVars>>
ImageRunSet ==
    /\ apc = "validated"
    /\ pipeline[idx] = "boot_linaro_image"
    /\ DOMAIN params \subseteq RunSignature(pipeline[idx])
    /\ runCount' = [runCount EXCEPT ![idx] = @ + 1]
    /\ LET options == Arg(params, "options", <<>>)
           interactive_boot_cmds == Arg(params, "interactive_boot_cmds", FALSE)
       IN  IF interactive_boot_cmds
           THEN boot_cmds' = options /\ UNCHANGED boot_options
           ELSE boot_options' = options /\ UNCHANGED boot_cmds
    /\ loc' = [loc EXCEPT !.status = "pass"]
    /\ apc' = "boot_call"
    /\ UNCHANGED <<entry, pipeline, idx, params, bootExc, android_wait_for_home_screen,
                   test_data, log, jobError, jobTestData>>
    /\ UNCHANGED <<runnerVars, sioVars, targetVars>>

\* lines 87-88: client.boot_linaro_image() returns; control goes to finally
ImageBootReturns ==
    /\ apc = "boot_call"
    /\ pipeline[idx] = "boot_linaro_image"
    /\ apc' = "finally"
    /\ UNCHANGED <<entry, pipeline, idx, params, loc, bootExc, cfgVars, test_data, log,
                   runCount, jobError, jobTestData>>
    /\ UNCHANGED <<runnerVars, sioVars, targetVars>>

\* The bare 'except:' of line 89 catches every exception
ImageCatches_onlyException(e) == IsException(e)
ImageCatches(e) == TRUE

\* line 91: status = 'fail'
ImageFailStatus_pass == "pass"
ImageFailStatus == "fail"

\* lines 89-92: the boot call raises; log, status = 'fail', raise
\* CriticalError; control goes to finally with the exception in flight
ImageBootRaises ==
    /\ apc = "boot_call"
    /\ pipeline[idx] = "boot_linaro_image"
    /\ \E e \in BootErrors :
          /\ bootExc' = e
          /\ IF ImageCatches(e)
             THEN /\ log' = Append(log, [fmt |-> "boot_linaro_image failed", arg |-> ""])
                  /\ loc' = [loc EXCEPT !.status = ImageFailStatus,
                                        !.exc = CriticalError("Failed to boot test image.")]
             ELSE /\ loc' = [loc EXCEPT !.exc = e]
                  /\ UNCHANGED log
    /\ apc' = "finally"
    /\ UNCHANGED <<entry, pipeline, idx, params, cfgVars, test_data, runCount,
                   jobError, jobTestData>>
    /\ UNCHANGED <<runnerVars, sioVars, targetVars>>

\* test_data.add_result(name, status): TestData is an append-only accumulator
add_result(td, name, status) == Append(td, [name |-> name, result |-> status])

\* lines 93-94: finally: self.context.test_data.add_result("boot_image", status)
ImageFinally ==
    /\ apc = "finally"
    /\ test_data' = add_result(test_data, "boot_image", loc.status)
    /\ apc' = "exit"
    /\ UNCHANGED <<entry, pipeline, idx, params, loc, bootExc, cfgVars, log, runCount,
                   jobError, jobTestData>>
    /\ UNCHANGED <<runnerVars, sioVars, targetVars>>

\* cmd_boot_master_image.run, lines 103-105, up to the boot call
MasterRun ==
    /\ apc = "validated"
    /\ pipeline[idx] = "boot_master_image"
    /\ DOMAIN params \subseteq RunSignature(pipeline[idx])
    /\ runCount' = [runCount EXCEPT ![idx] = @ + 1]
    /\ apc' = "boot_call"
    /\ UNCHANGED <<entry, pipeline, idx, params, loc, bootExc, cfgVars, test_data, log,
                   jobError, jobTestData>>
    /\ UNCHANGED <<runnerVars, sioVars, targetVars>>

\* line 105: client.boot_master_image() returns
MasterBootReturns ==
    /\ apc = "boot_call"
    /\ pipeline[idx] = "boot_master_image"
    /\ apc' = "exit"
    /\ UNCHANGED <<entry, pipeline, idx, params, loc, bootExc, cfgVars, test_data, log,
                   runCount, jobError, jobTestData>>
    /\ UNCHANGED <<runnerVars, sioVars, targetVars>>

\* line 105: client.boot_master_image() raises; the exception leaves run as is
MasterBootRaises ==
    /\ apc = "boot_call"
    /\ pipeline[idx] = "boot_master_image"
    /\ \E e \in BootErrors :
          /\ bootExc' = e
          /\ loc' = [loc EXCEPT !.exc = e]
    /\ apc' = "exit"
    /\ UNCHANGED <<entry, pipeline, idx, params, cfgVars, test_data, log, runCount,
                   jobError, jobTestData>>
    /\ UNCHANGED <<runnerVars, sioVars, targetVars>>

\* Executor: run returned; go on with the next Action, or finish the job
ExecContinue ==
    /\ apc = "exit"
    /\ loc.exc = NoError
    /\ idx' = idx + 1
    /\ apc' = IF idx + 1 > Len(pipeline) THEN "job_done" ELSE "next"
    /\ UNCHANGED <<entry, pipeline, params, loc, bootExc, cfgVars, test_data, log,
                   runCount, jobError, jobTestData>>
    /\ UNCHANGED <<runnerVars, sioVars, targetVars>>

\* Executor: an error left run; the remaining Actions are not run and the job
\* is reported failed with that error and the TestData accumulated so far
ExecAbort_continues ==
    /\ apc = "exit"
    /\ loc.exc # NoError
    /\ jobError' = loc.exc
    /\ jobTestData' = test_data
    /\ idx' = idx + 1
    /\ apc' = IF idx + 1 > Len(pipeline) THEN "job_done" ELSE "next"
    /\ UNCHANGED <<entry, pipeline, params, loc, bootExc, cfgVars, test_data, log,
                   runCount>>
    /\ UNCHANGED <<runnerVars, sioVars, targetVars>>
ExecAbort ==
    /\ apc = "exit"
    /\ loc.exc # NoError
    /\ jobError' = loc.exc
    /\ jobTestData' = test_data
    /\ apc' = "job_failed"
    /\ UNCHANGED <<entry, pipeline, idx, params, loc, bootExc, cfgVars, test_data, log,
                   runCount>>
    /\ UNCHANGED <<runnerVars, sioVars, targetVars>>

BootNext ==
    \/ ExecBind \/ InvokeTypeError
    \/ AndroidRunSet \/ AndroidBootReturns \/ AndroidBootRaises
    \/ ImageRunSet \/ ImageBootReturns \/ ImageBootRaises \/ ImageFinally
    \/ MasterRun \/ MasterBootReturns \/ MasterBootRaises
    \/ ExecContinue \/ ExecAbort

----------------------------------------------------------------------------
(* Target capabilities, target.py:36-87 *)

Capabilities == {"power_on", "power_off", "deploy_linaro", "deploy_android",
                 "deploy_linaro_prebuilt", "file_system"}
DeployCaps == {"deploy_linaro", "deploy_android", "deploy_linaro_prebuilt"}

\* the argument of NotImplementedError in each base method (lines 61-87)
NotImplementedName(cap) ==
    CASE cap = "deploy_linaro"  -> "deploy_image"
      [] cap = "deploy_android" -> "deploy_android_image"
      [] OTHER                  -> cap

\* A capability of the base Target: the method only raises
\* NotImplementedError; dd and bo are deployment_data and boot_options
base_call(cap, dd, bo) ==
    [exc |-> Err("NotImplementedError", NotImplementedName(cap)), dd |-> dd, bo |-> bo]

\* lines 41-45: a deployment function points deployment_data to the
\* dictionary of the image family it deployed
DeployedData(cap) == IF cap = "deploy_android" THEN "android_deployment_data"
                     ELSE "ubuntu_deployment_data"

\* Target.__init__, lines 47-55; no capability implemented
TargetIdle ==
    /\ impl = {}
    /\ deployment_data = "{}"
    /\ tCall = "none"
    /\ tExc = NoError
    /\ tBefore = [dd |-> "{}", bo |-> <<>>]
    /\ tCalls = 0

\* Target.__init__, lines 47-55, of a variant implementing some capabilities
TargetInit ==
    /\ impl \in SUBSET Capabilities
    /\ deployment_data = "{}"
    /\ tCall = "none"
    /\ tExc = NoError
    /\ tBefore = [dd |-> "{}", bo |-> <<>>]
    /\ tCalls = 0

\* a capability the variant does not implement is invoked: the base method runs
TargetCallUnsupported ==
    /\ tCalls < MaxCalls
    /\ \E cap \in Capabilities \ impl :
          LET r == base_call(cap, deployment_data, boot_options)
          IN  /\ tCall' = cap
              /\ tExc' = r.exc
              /\ deployment_data' = r.dd
              /\ boot_options' = r.bo
    /\ tBefore' = [dd |-> deployment_data, bo |-> boot_options]
    /\ tCalls' = tCalls + 1
    /\ UNCHANGED impl
    /\ UNCHANGED <<pipeline, idx, apc, params, loc, bootExc, boot_cmds,
                   android_wait_for_home_screen, test_data, log, runCount,
                   jobError, jobTestData, entry>>
    /\ UNCHANGED <<runnerVars, sioVars>>

\* a deploy capability the variant implements is invoked and succeeds
TargetCallDeploy ==
    /\ tCalls < MaxCalls
    /\ \E cap \in DeployCaps \cap impl :
          /\ tCall' = cap
          /\ deployment_data' = DeployedData(cap)
    /\ tExc' = NoError
    /\ tBefore' = [dd |-> deployment_data, bo |-> boot_options]
    /\ tCalls' = tCalls + 1
    /\ UNCHANGED impl
    /\ UNCHANGED bootVars
    /\ UNCHANGED <<runnerVars, sioVars>>

\* power_on, power_off or file_system of a variant implementing it
TargetCallOther ==
    /\ tCalls < MaxCalls
    /\ \E cap \in (Capabilities \ DeployCaps) \cap impl : tCall' = cap
    /\ tExc' = NoError
    /\ tBefore' = [dd |-> deployment_data, bo |-> boot_options]
    /\ tCalls' = tCalls + 1
    /\ UNCHANGED <<impl, deployment_data>>
    /\ UNCHANGED bootVars
    /\ UNCHANGED <<runnerVars, sioVars>>

\* a boot Action sets target_device.boot_options (boot_control.py:57, 85)
TargetSetBootOptions ==
    /\ \E o \in OptionLists \ {boot_options} : boot_options' = o
    /\ tCall' = "none"
    /\ tExc' = NoError
    /\ UNCHANGED <<impl, deployment_data, tBefore, tCalls>>
    /\ UNCHANGED <<pipeline, idx, apc, params, loc, bootExc, boot_cmds,
                   android_wait_for_home_screen, test_data, log, runCount,
                   jobError, jobTestData, entry>>
    /\ UNCHANGED <<runnerVars, sioVars>>

TargetNext == TargetCallUnsupported \/ TargetCallDeploy \/ TargetCallOther
                 \/ TargetSetBootOptions

----------------------------------------------------------------------------
InitRunner == RunnerInit /\ SioInit /\ BootIdle /\ TargetIdle
SpecRunner == InitRunner /\ [][RunnerNext]_vars

InitSio == RunnerInit /\ SioInit /\ BootIdle /\ TargetIdle
SpecSio == InitSio /\ [][SioNext]_vars

InitBoot == RunnerInit /\ SioInit /\ BootInit /\ TargetIdle
SpecBoot == InitBoot /\ [][BootNext]_vars

InitTarget == RunnerInit /\ SioInit /\ BootIdle /\ TargetInit
SpecTarget == InitTarget /\ [][TargetNext]_vars

----------------------------------------------------------------------------
(* Claims about Target.runner() *)

\* positions in the trace of the events of kind e with command c
EvIdx(e, c) == {i \in 1..Len(trace) : trace[i].ev = e /\ trace[i].cmd = c}
SyncIdx     == EvIdx("run", "sync")
PowerOffIdx == EvIdx("power_off", "")
BodyExitIdx == {i \in 1..Len(trace) : trace[i].ev = "body_exit"}

\* C1: when power_on returned a session and the body of the scope raised,
\* the scope is left after exactly one 'sync' attempt followed by exactly one
\* power_off, and the exception leaving the scope is the body's.
C1_BodyRaisesSyncThenPowerOff ==
    (rpc = "done" /\ proc # None /\ bodyExc # NoError) =>
        /\ Cardinality(SyncIdx) = 1
        /\ Cardinality(PowerOffIdx) = 1
        /\ \A i \in SyncIdx, j \in PowerOffIdx : i < j
        /\ pending = bodyExc

\* C2: a failing 'sync' in the teardown is ignored: power_off is still
\* called exactly once for the session.
C2_SyncFailureIgnored ==
    (rpc = "done" /\ syncExc # NoError) =>
        /\ Cardinality(PowerOffIdx) = 1
        /\ \A j \in PowerOffIdx : trace[j].s = proc
        /\ pending # syncExc

\* C3: on every exit path after power_on returned a session (normal exit,
\* exception in the body, failure while wrapping the session), power_off has
\* been called exactly once with that session by the time the scope is left,
\* and never before the body finished.
C3_PowerOffOnEveryExitPath ==
    /\ (rpc = "done" /\ proc # None) =>
           /\ Cardinality(PowerOffIdx) = 1
           /\ \A j \in PowerOffIdx : trace[j].s = proc
    /\ \A j \in PowerOffIdx : rpc # "body" /\ (\A b \in BodyExitIdx : b < j)

----------------------------------------------------------------------------
(* Claims about the boot Actions and the pipeline *)

Android == "boot_linaro_android_image"
Image   == "boot_linaro_image"

\* the current Action is 'name', the body of its run was entered and run has
\* been left: its result or its error is at the caller
RunLeft(name) ==
    /\ apc \in {"exit", "job_failed"}
    /\ idx <= Len(pipeline)
    /\ pipeline[idx] = name
    /\ runCount[idx] >= 1

ImageRuns == Cardinality({i \in 1..Len(pipeline) : pipeline[i] = Image /\ runCount[i] >= 1})

Last(s) == s[Len(s)]

\* C4: each run of boot-to-test-image appends exactly one record to
\* TestData, ("boot_image", "pass") when the boot call returned and
\* ("boot_image", "fail") when it raised; the record is there when the error
\* is at the caller; nothing else adds or changes a TestData record.
C4_OneBootImageRecordPerRun ==
    /\ [](RunLeft(Image) =>
            /\ Len(test_data) = ImageRuns
            /\ Last(test_data) = [name |-> "boot_image",
                                  result |-> IF bootExc = NoError THEN "pass" ELSE "fail"])
    /\ [][\/ test_data' = test_data
          \/ /\ pipeline[idx] = Image
             /\ apc = "finally"
             /\ Len(test_data') = Len(test_data) + 1
             /\ SubSeq(test_data', 1, Len(test_data)) = test_data]_vars

C4_Witness ==
    /\ RunLeft(Image)
    /\ loc.exc # NoError
    /\ Len(test_data) = 2
    /\ test_data[1] = [name |-> "boot_image", result |-> "pass"]
    /\ test_data[2] = [name |-> "boot_image", result |-> "fail"]

\* C5: when the boot call of boot-to-test-image raises, whatever the
\* exception and whatever interactive_boot_cmds, a CriticalError leaves run;
\* when the boot call returns, nothing is raised.
C5_ImageBootFailureIsCritical ==
    RunLeft(Image) =>
        /\ bootExc # NoError => loc.exc.kind = "CriticalError"
        /\ bootExc = NoError => loc.exc = NoError

C5_Witness ==
    /\ RunLeft(Image)
    /\ bootExc.kind = "KeyboardInterrupt"
    /\ Arg(params, "interactive_boot_cmds", FALSE) = TRUE
    /\ loc.exc.kind = "CriticalError"

\* C6: when the boot call of boot-to-Android raises ADBConnectError, that
\* same error leaves run, with its kind (it is not turned into a
\* CriticalError), and a log record has been written for it.
C6_ADBConnectErrorReraised ==
    (RunLeft(Android) /\ IsADBConnectError(bootExc)) =>
        /\ loc.exc = bootExc
        /\ loc.exc.kind # "CriticalError"
        /\ log # <<>>
        /\ Last(log) = [fmt |-> "boot_linaro_android_image failed to create the adb connection: %s",
                        arg |-> bootExc.msg]

C6_Witness ==
    /\ RunLeft(Android)
    /\ IsADBConnectError(bootExc)
    /\ Arg(params, "adb_check", FALSE) = TRUE
    /\ loc.exc.kind = "ADBConnectError"

\* C7: when the boot call of boot-to-Android raises an exception that is not
\* an ADBConnectError, a CriticalError carrying the original exception's
\* message leaves run.
C7_CriticalErrorCarriesMessage ==
    (RunLeft(Android) /\ bootExc # NoError /\ IsException(bootExc)
                      /\ ~IsADBConnectError(bootExc)) =>
        /\ loc.exc.kind = "CriticalError"
        /\ loc.exc.msg = bootExc.msg

\* C8: a parameter the Action does not declare itself fails validation, and
\* run is not invoked: the fields one Action's schema accepts are not enlarged
\* by the declarations of another Action.
C8_UndeclaredFieldRejected ==
    (/\ apc \in {"validated", "boot_call", "finally", "exit", "job_failed"}
     /\ ~(DOMAIN params \subseteq OwnDeclared(pipeline[idx]))) =>
        /\ jobError.kind = "SchemaError"
        /\ runCount[idx] = 0

\* C9: when an Action's run raises, every earlier Action has been run exactly
\* once, no later Action is run, and the job is reported with the error of
\* that Action and the TestData accumulated up to there; a failed boot is
\* never followed by another Action.
C9_PipelineAbort ==
    /\ \A i \in 1..MaxActions : runCount[i] <= 1
    /\ (apc = "job_failed" /\ jobError.kind # "SchemaError") =>
          /\ \A i \in 1..MaxActions : i < idx => runCount[i] = 1
          /\ \A i \in 1..MaxActions : i > idx => runCount[i] = 0
          /\ jobError = loc.exc
          /\ jobTestData = test_data
    /\ apc \in {"next", "job_done"} => bootExc = NoError

C9_Witness ==
    /\ apc = "job_failed"
    /\ Len(pipeline) = 3
    /\ idx = 2
    /\ pipeline[1] = Image
    /\ pipeline[2] = Android
    /\ bootExc.kind = "Exception"
    /\ jobError.kind = "CriticalError"
    /\ runCount[1] = 1 /\ runCount[2] = 1 /\ runCount[3] = 0
    /\ jobTestData = <<[name |-> "boot_image", result |-> "pass"]>>

----------------------------------------------------------------------------
(* Claims about SerialIO *)

\* C10: before close, getvalue() is the concatenation of the written texts
\* in call order; a value returned by an earlier getvalue() is a prefix of
\* the current one; flush() and getvalue() leave it unchanged.
C10_GetvalueIsConcatenation ==
    /\ [](~serialio.closed =>
            /\ cgetvalue(serialio) = Concat(written)
            /\ IsPrefix(lastGet, cgetvalue(serialio)))
    /\ [][sioOp' \in {"flush", "getvalue"} =>
              cgetvalue(serialio') = cgetvalue(serialio)]_vars

C10_Witness ==
    /\ sioOp = "getvalue"
    /\ Len(written) >= 2
    /\ written[1] # <<>> /\ written[2] # <<>> /\ written[1] # written[2]
    /\ lastGet = written[1] \o written[2]

\* C11: write appends the text to the in-memory buffer first and to the log
\* stream second: the log stream never holds text the buffer lacks, inside a
\* write the buffer is the log stream plus the text being written, and
\* between writes the two are equal.
C11_LogFollowsBuffer ==
    /\ IsPrefix(logfile.data, cgetvalue(serialio))
    /\ sioPending.active => cgetvalue(serialio) = logfile.data \o sioPending.text
    /\ ~sioPending.active => logfile.data = cgetvalue(serialio)

C11_Witness ==
    /\ sioPending.active
    /\ sioPending.text # <<>>
    /\ Len(written) = 2
    /\ logfile.data = written[1]
    /\ written[1] # <<>>
    /\ cgetvalue(serialio) = written[1] \o written[2]

----------------------------------------------------------------------------
(* Claims about the capabilities of a Target variant *)

\* the latest invocation was of a capability the variant does not implement
UnsupportedCalled == tCall \in Capabilities \ impl

\* C12: invoking a capability the variant does not implement fails
\* with a NotSupported error, does nothing by default and leaves
\* deployment_data and boot_options unchanged.
C12_UnsupportedIsNotSupported ==
    UnsupportedCalled =>
        /\ tExc.kind = "NotSupported"
        /\ deployment_data = tBefore.dd
        /\ boot_options = tBefore.bo

----------------------------------------------------------------------------
(* Claims about the settings the boot Actions write *)

\* the body of the current Action's run was entered and has reached, or has
\* passed, the boot call
InRun(name) ==
    /\ apc \in {"boot_call", "finally", "exit", "job_failed"}
    /\ idx <= Len(pipeline)
    /\ pipeline[idx] = name
    /\ runCount[idx] >= 1

Supplied(f) == f \in DOMAIN params
SuppliedOptions == IF Supplied("options") THEN params["options"] ELSE <<>>

\* C13: from the boot call of boot-to-Android on, whether it returns or
\* raises, boot_options is the supplied options (the empty list when absent),
\* the wait-for-home-screen flag is the supplied wait_for_home_screen, and
\* TestData is what it was when run was entered.
C13_AndroidSettingsBeforeBoot ==
    InRun(Android) =>
        /\ boot_options = SuppliedOptions
        /\ Supplied("wait_for_home_screen") =>
              android_wait_for_home_screen = params["wait_for_home_screen"]
        /\ test_data = entry.test_data

C13_Witness ==
    /\ InRun(Android)
    /\ apc = "exit"
    /\ bootExc # NoError
    /\ Supplied("options") /\ params["options"] = <<"-s">>
    /\ Supplied("wait_for_home_screen") /\ params["wait_for_home_screen"] = FALSE
    /\ entry.android_wait_for_home_screen = TRUE
    /\ entry.boot_options = <<"console=ttyS0">>
    /\ boot_options = <<"-s">>
    /\ android_wait_for_home_screen = FALSE

\* C14: from the boot call of boot-to-test-image on, exactly one setting has
\* been written: with interactive_boot_cmds true, boot_cmds is the options
\* and boot_options is as it was; otherwise boot_options is the options and
\* boot_cmds is as it was.
C14_ImageWritesOneSetting ==
    InRun(Image) =>
        IF Supplied("interactive_boot_cmds") /\ params["interactive_boot_cmds"]
        THEN boot_cmds = SuppliedOptions /\ boot_options = entry.boot_options
        ELSE boot_options = SuppliedOptions /\ boot_cmds = entry.boot_cmds

C14_Witness ==
    /\ InRun(Image)
    /\ apc = "boot_call"
    /\ Supplied("interactive_boot_cmds") /\ params["interactive_boot_cmds"]
    /\ Supplied("options") /\ params["options"] = <<"-s">>
    /\ boot_cmds = <<"-s">>
    /\ entry.boot_cmds # <<"-s">>
    /\ boot_options = <<"console=ttyS0">>

\* C16: in boot-to-Android an omitted optional parameter takes the default
\* its schema declares: without wait_for_home_screen the wait flag is set to
\* the schema default, without adb_check the boot call gets the schema default.
C16_OmittedTakesSchemaDefault ==
    InRun(Android) =>
        /\ ~Supplied("wait_for_home_screen") =>
              android_wait_for_home_screen = schema_default("wait_for_home_screen")
        /\ ~Supplied("adb_check") => loc.adb_check = schema_default("adb_check")

----------------------------------------------------------------------------
(* Claims about Target.runner() when power_on fails *)

\* C15: when power_on raises, the body of the scope is not entered, no
\* command is run, power_off is not called, and the error leaving the scope
\* is the one power_on raised.
C15_PowerOnFailurePropagates ==
    /\ (proc = None /\ rpc # "power_on") => rpc \in {"finally", "done"}
    /\ (proc = None /\ rpc = "done") =>
          /\ Len(trace) = 1
          /\ trace[1].ev = "power_on"
          /\ \A i \in 1..Len(trace) :
                trace[i].ev \notin {"yield", "run", "body_exit", "power_off"}
          /\ pending \in PowerOnErrors
          /\ pending.kind = trace[1].cmd

C15_Witness ==
    /\ rpc = "done"
    /\ proc = None
    /\ pending = Err("CriticalError", "power_on failed")
    /\ trace = <<Ev("power_on", "CriticalError", None)>>

====
